---- MODULE Spec2Model ----
(***************************************************************************)
(* Model of the chat room hub of src/src/server/index.ts (class Chat, a    *)
(* partyserver Server running in one Durable Object per room).             *)
(*                                                                         *)
(* The hub's fields (roomId, authTimers, pingTimers, lastMessage), the     *)
(* per-connection fields (authed, userId), the runtime's pending           *)
(* setTimeout timers, the verification calls that are awaited, and the     *)
(* clock are the state.  Every handler is one action; the auth branch of   *)
(* onMessage and the POST /broadcast branch of onRequest are two actions   *)
(* each, split at their await.  `out` holds the calls (send / close) the   *)
(* last step made on every connection and `response` the HTTP response the *)
(* last step returned.                                                     *)
(***************************************************************************)
EXTENDS Integers, Sequences, FiniteSets

\* ---------------------------------------------------------------- bounds
\* setTimeout timers the runtime holds pending at once, hub-wide
MaxTimers == 4
\* verification calls (checkParticipant) in flight at once, hub-wide
MaxInflight == 2
\* the same two bounds in the room scenarios
RoomMaxTimers == 2
RoomMaxInflight == 1
\* POST /broadcast calls whose body is being read (request.json()) at once
MaxPending == 2
\* the same bound in the scenarios of one connection and of the room
SoloMaxPending == 1
RoomMaxPending == 1
\* calls started in a scenario that orders calls by their start
MaxStarted == 4

\* ------------------------------------------------------ program constants
AuthTimeoutMs == 10000
PingTimeoutMs == 30000
AuthFailCode == 4401
NormalCloseCode == 1000

\* the step of the clock
TickMs == AuthTimeoutMs
\* the value of Date.now() at the step that reads it
DateNow == "<now>"

\* ---------------------------------------------------------------- domains
Conns == {"c1", "c2"}

\* undefined / null of the source
Null == "<null>"
\* the empty string: not nullish (??) but falsy (||, !)
Empty == ""

Truthy(s) == s # Null /\ s # Empty
Nullish(s) == s = Null

\* s ?? d
Coalesce(s, d) == IF Nullish(s) THEN d ELSE s
\* s || d
OrElse(s, d) == IF Truthy(s) THEN s ELSE d

\* ------------------------------------------------- connection routing data
\* What new URL(s) does with a string the connection carries: the string is
\* absent (or empty, which `if (s)` treats alike), new URL throws on it, or
\* it is parsed.
Absent == "absent"
Malformed == "malformed"
Parsed == "parsed"

\* What extractRoomId reads from a connection: its url (parsed: the pathname
\* match and the "room" query parameter), the X-PartyKit-Room header, the
\* X-Original-URL header (parsed: the pathname match), and conn.room.name.
Route(url, pathRoom, queryRoom, headerRoom, original, originalRoom, partyRoom) ==
    [url |-> url, pathRoom |-> pathRoom, queryRoom |-> queryRoom,
     headerRoom |-> headerRoom, original |-> original,
     originalRoom |-> originalRoom, partyRoom |-> partyRoom]

Routes ==
    { Route(Parsed, "r1", Null, "r2", Absent, Null, Null),    \* wss://host/rooms/r1
      Route(Parsed, Null, Empty, "r1", Absent, Null, Null),   \* wss://host/chat?room=
      Route(Parsed, Null, Null, "r1", Absent, Null, Null),    \* wss://host/chat
      Route(Malformed, Null, Null, "r1", Absent, Null, "r1"), \* url is not a URL
      Route(Absent, Null, Null, "r1", Parsed, "r2", Null),    \* header only
      Route(Absent, Null, Null, Null, Parsed, "r2", "r1"),    \* original URL only
      Route(Absent, Null, Null, Null, Parsed, Null, "r1"),    \* original URL, other path
      Route(Absent, Null, Null, Null, Malformed, Null, "r1"), \* header is not a URL
      Route(Absent, Null, Null, Null, Absent, Null, "r1"),    \* room name only
      Route(Absent, Null, Null, Null, Absent, Null, Null) }   \* nothing

\* extractRoomId(conn): a throw of new URL is caught and the result is null
ExtractRoomId(rt) ==
    IF rt.url = Malformed THEN Null
    ELSE IF rt.url = Parsed
    THEN (IF rt.pathRoom # Null THEN rt.pathRoom ELSE rt.queryRoom)
    ELSE IF Truthy(rt.headerRoom) THEN rt.headerRoom
    ELSE IF rt.original = Malformed THEN Null
    ELSE IF rt.original = Parsed /\ rt.originalRoom # Null THEN rt.originalRoom
    ELSE IF Truthy(rt.partyRoom) THEN rt.partyRoom
    ELSE Null

\* ------------------------------------------------------ client -> hub frames
\* A raw frame: json says whether JSON.parse succeeds, the other fields are
\* the parsed object's (Null when absent).
JTrue == "true"
JFalse == "false"
\* !!v
ToBoolean(v) == v # Null /\ v # Empty /\ v # JFalse

Raw(json, type, token, rid, uid, hasT, t, isTyping) ==
    [json |-> json, type |-> type, token |-> token, roomId |-> rid,
     userId |-> uid, hasT |-> hasT, t |-> t, isTyping |-> isTyping]

AuthFrames ==
    { Raw(TRUE, "auth", "tok", Null, "h1", FALSE, Null, Null),
      Raw(TRUE, "auth", "tok", "r2", "h1", FALSE, Null, Null),
      Raw(TRUE, "auth", Null, "r1", Null, FALSE, Null, Null) }
\* auth frames of the room scenarios: with and without a userId hint
RoomAuthFrames ==
    { Raw(TRUE, "auth", "tok", Null, "h1", FALSE, Null, Null),
      Raw(TRUE, "auth", "tok", Null, Null, FALSE, Null, Null) }
PingFrames ==
    { Raw(TRUE, "ping", Null, Null, Null, TRUE, "7", Null),
      Raw(TRUE, "ping", Null, Null, Null, FALSE, Null, Null) }
TypingFrames ==
    { Raw(TRUE, "typing", Null, Null, Null, FALSE, Null, v) :
        v \in {JTrue, JFalse, Null} }
OtherFrames ==
    { Raw(FALSE, Null, Null, Null, Null, FALSE, Null, Null),     \* not JSON
      Raw(TRUE, Null, Null, Null, Null, FALSE, Null, Null),      \* no type
      Raw(TRUE, "message.created", Null, Null, Null, FALSE, Null, Null) }
Frames == AuthFrames \cup PingFrames \cup TypingFrames \cup OtherFrames
RoomFrames == RoomAuthFrames \cup PingFrames \cup TypingFrames \cup OtherFrames

\* ------------------------------------------------------ hub -> client calls
Send(m) == [call |-> "send", data |-> m]
Close(code, reason) == [call |-> "close", code |-> code, reason |-> reason]

Info == [type |-> "info", message |-> "please auth"]
Error(code, message) == [type |-> "error", code |-> code, message |-> message]
AuthOk == [type |-> "auth:ok"]
Pong(t) == [type |-> "pong", t |-> t]

\* sendError(conn, code, message)
SendError(code, message) == Send(Error(code, message))

\* ---------------------------------------------------- broadcast bodies
\* body.message of POST /broadcast: a JSON object.  `before` is the body's
\* own "before" member (Null when it has none).  NoBody is null/undefined.
Body(id, before) == [type |-> "message.created", id |-> id, before |-> before]
NoBody == [type |-> Null, id |-> Null, before |-> Null]
Bodies == { Body("m1", Null), Body("m2", "own") }

\* a bug: the body's own "before" member survives the spread
DecorateMut(m, last) ==
    [type |-> m.type, id |-> m.id,
     before |-> IF m.before # Null THEN Body(m.before, Null) ELSE last]
\* { ...body.message, before: this.lastMessage }
Decorate(m, last) == [type |-> m.type, id |-> m.id, before |-> last]

TypingPayload(uid, isTyping, rid, ts, last) ==
    [type |-> "typing", userId |-> Coalesce(uid, "unknown"),
     isTyping |-> ToBoolean(isTyping), roomId |-> rid, timestamp |-> ts,
     before |-> last]

\* ------------------------------------------------------------ HTTP requests
\* An Authorization header is the sequence of its words; a missing header is
\* the empty sequence (headers.get("authorization") || "").
WebhookToken == "secret"
NoHeader == << >>
Bearer(tok) == <<"Bearer", tok>>

Request(path, method, auth, bodyOk, rid, msg, excl) ==
    [path |-> path, method |-> method, auth |-> auth, bodyOk |-> bodyOk,
     roomId |-> rid, message |-> msg, exclude |-> excl]

\* the requests of the single-connection scenarios
Requests ==
    { Request("/broadcast", "POST", Bearer(WebhookToken), TRUE, r, Body("m1", Null), {}) :
        r \in {"r1", "r2"} }
    \cup { Request("/broadcast", "POST", Bearer("wrong"), TRUE, "r1", Body("m1", Null), {}) }
\* the requests of the room scenarios
RoomRequests ==
    { Request("/broadcast", "POST", Bearer(WebhookToken), TRUE, "r1", Body("m2", "own"), x) :
        x \in SUBSET Conns }
    \cup { Request("/broadcast", "POST", Bearer(WebhookToken), TRUE, r, Body("m1", Null), {}) :
        r \in {"r1", "r2"} }
    \cup { Request("/broadcast", "POST", Bearer(WebhookToken), TRUE, Null, Body("m1", Null), {}),
           Request("/broadcast", "POST", Bearer(WebhookToken), TRUE, "r1", NoBody, {}) }
    \cup { Request("/broadcast", "POST", a, TRUE, "r1", Body("m1", Null), {}) :
        a \in {NoHeader, Bearer("wrong"), <<WebhookToken>>} }
    \cup { Request("/broadcast", "POST", Bearer(WebhookToken), FALSE, Null, NoBody, {}) }
    \cup { Request("/last-message", "GET", a, TRUE, Null, NoBody, {}) :
        a \in {NoHeader, Bearer(WebhookToken)} }
    \cup { Request("/broadcast", "GET", Bearer(WebhookToken), TRUE, "r1", Body("m1", Null), {}),
           Request("/last-message", "POST", Bearer(WebhookToken), TRUE, Null, NoBody, {}) }

Response(code, text, success, error, last, rid) ==
    [status |-> code, text |-> text, success |-> success, error |-> error,
     lastMessage |-> last, roomId |-> rid]
NoResponse == Response(0, Null, FALSE, Null, NoBody, Null)

\* a bug: the token is accepted without the Bearer scheme
AuthorizedMut(rq) == rq.auth # NoHeader /\ rq.auth[Len(rq.auth)] = WebhookToken
\* auth !== `Bearer ${this.env.WEBHOOK_TOKEN}` with auth = header || ""
Authorized(rq) == rq.auth = Bearer(WebhookToken)

\* ------------------------------------------------- verification authority
\* What res.json() gives for the answer's body: an object (whose userId
\* member may be absent), the value null, or a rejection (not JSON).
JsonObject == "object"
JsonNull == "null"
JsonInvalid == "invalid"

\* What fetch() does for checkParticipant: throws, or answers with a status
\* and a body; userId is the member of a body that is an object.
FetchReply(thrown, code, json, uid) ==
    [thrown |-> thrown, status |-> code, json |-> json, userId |-> uid]

BackendReplies ==
    { FetchReply(FALSE, 200, JsonObject, "u1"),
      FetchReply(FALSE, 200, JsonNull, Null),
      FetchReply(FALSE, 403, JsonObject, Null),
      FetchReply(FALSE, 500, JsonObject, "u1"),
      FetchReply(TRUE, 0, JsonInvalid, Null) }
\* the replies of the room scenarios: a 200 may carry no userId
RoomReplies ==
    { FetchReply(FALSE, 200, JsonObject, "u1"),
      FetchReply(FALSE, 200, JsonObject, Null),
      FetchReply(FALSE, 200, JsonInvalid, Null),
      FetchReply(FALSE, 200, JsonNull, Null),
      FetchReply(FALSE, 403, JsonObject, Null) }

\* a bug: any answer of the authority counts as success
CheckParticipantMut(reply) ==
    IF reply.thrown THEN [success |-> FALSE, userId |-> Null]
    ELSE [success |-> TRUE, userId |-> reply.userId]
\* checkParticipant(roomId, token), given what fetch() did: a body that is not
\* JSON reads as {}, and the member access on a null body throws into the
\* outer catch
CheckParticipant(reply) ==
    IF reply.thrown THEN [success |-> FALSE, userId |-> Null]
    ELSE IF reply.status # 200 THEN [success |-> FALSE, userId |-> Null]
    ELSE IF reply.json = JsonNull THEN [success |-> FALSE, userId |-> Null]
    ELSE IF reply.json = JsonInvalid THEN [success |-> TRUE, userId |-> Null]
    ELSE [success |-> TRUE, userId |-> reply.userId]

\* ------------------------------------------------------------------ state
VARIABLES
    roomId,       \* Chat.roomId
    lastMessage,  \* Chat.lastMessage
    authTimers,   \* Chat.authTimers: conn id -> timer handle (0: no entry)
    pingTimers,   \* Chat.pingTimers: conn id -> timer handle (0: no entry)
    authed,       \* conn.authed
    userId,       \* conn.userId
    status,       \* the transport: "none", "open", "closing", "closed"
    timers,       \* the runtime's pending setTimeout timers
    inflight,     \* per connection, the checkParticipant calls being awaited
    out,          \* per connection, the send/close calls of the last step
    response,     \* the Response the last step returned (onRequest)
    timeouts,     \* per connection, timeout errors sent so far, by kind
    pending,      \* the POST /broadcast calls awaiting request.json()
    started,      \* how many calls have started (the order of their starts)
    writer        \* the start number of the call that wrote lastMessage

hubVars == <<roomId, lastMessage, authTimers, pingTimers>>
connVars == <<authed, userId>>
vars == <<roomId, lastMessage, authTimers, pingTimers, authed, userId, status,
          timers, inflight, out, response, timeouts, pending, started, writer>>

NoOut == [c \in Conns |-> << >>]
OutTo(c, calls) == [NoOut EXCEPT ![c] = calls]

Init ==
    /\ roomId = Null
    /\ lastMessage = NoBody
    /\ authTimers = [c \in Conns |-> 0]
    /\ pingTimers = [c \in Conns |-> 0]
    /\ authed = [c \in Conns |-> FALSE]
    /\ userId = [c \in Conns |-> Null]
    /\ status = [c \in Conns |-> "none"]
    /\ timers = {}
    /\ inflight = [c \in Conns |-> << >>]
    /\ out = NoOut
    /\ response = NoResponse
    /\ timeouts = [c \in Conns |-> [auth |-> 0, ping |-> 0]]
    /\ pending = << >>
    /\ started = 0
    /\ writer = 0

\* ---------------------------------------------------------------- runtime
\* A pending timer: its handle, its callback (kind, conn) and the time left
\* until it is due.  setTimeout returns the least positive handle no pending
\* timer has (positive, so `if (t)` is true of it); HandlesLive says that the
\* hub's maps never hold the handle of a timer that is gone.
InUse(ts) == {t.id : t \in ts}
NextTimer(ts) ==
    CHOOSE h \in 1..(Cardinality(ts) + 1) \ InUse(ts) :
        \A g \in 1..(Cardinality(ts) + 1) \ InUse(ts) : h <= g

\* setTimeout(cb, ms)
Timer(id, kind, c, ms) == [id |-> id, kind |-> kind, conn |-> c, left |-> ms]

\* a bug: the timer is not cancelled
ClearTimeoutMut(ts, id) == ts
\* clearTimeout(handle): the pending timer with that handle, if any, is dropped
ClearTimeout(ts, id) == { t \in ts : t.id # id }

\* conn.close(): an open transport starts closing; onClose follows later
Closing(c) == [status EXCEPT ![c] = IF @ = "open" THEN "closing" ELSE @]

\* a bug: the exclusion list is ignored
BroadcastMut(m, without) ==
    [c \in Conns |-> IF status[c] = "open" THEN <<Send(m)>> ELSE << >>]
\* this.broadcast(msg, without): every open connection whose id is not listed
Broadcast(m, without) ==
    [c \in Conns |->
        IF status[c] = "open" /\ c \notin without THEN <<Send(m)>> ELSE << >>]

\* the number of verification calls being awaited
RECURSIVE Total(_, _)
Total(f, S) ==
    IF S = {} THEN 0
    ELSE LET c == CHOOSE x \in S : TRUE IN Len(f[c]) + Total(f, S \ {c})
InFlight == Total(inflight, Conns)

Remove(seq, i) == [j \in 1..(Len(seq) - 1) |-> IF j < i THEN seq[j] ELSE seq[j + 1]]

\* one reply to the sender and nothing else
Reply(c, calls) ==
    /\ out' = OutTo(c, calls)
    /\ response' = NoResponse
    /\ UNCHANGED <<roomId, lastMessage, authTimers, pingTimers, authed, userId,
                   status, timers, inflight, timeouts>>

\* The hub runs one handler at a time: a handler starts only when the calls and
\* the response of the previous one have been handed over (Deliver).
Idle == out = NoOut /\ response = NoResponse

\* -------------------------------------------------------------- onConnect
OnConnect(c, rt) ==
    /\ Idle
    /\ status[c] = "none"
    /\ roomId' = Coalesce(roomId, Coalesce(ExtractRoomId(rt), "default"))
    /\ out' = OutTo(c, <<Send(Info)>>)
    /\ timers' = timers \cup {Timer(NextTimer(timers), "auth", c, AuthTimeoutMs)}
    /\ authTimers' = [authTimers EXCEPT ![c] = NextTimer(timers)]
    /\ status' = [status EXCEPT ![c] = "open"]
    /\ response' = NoResponse
    /\ UNCHANGED <<lastMessage, pingTimers, authed, userId, inflight, timeouts>>

\* a bug: the timeout closes without the error
AuthTimeoutCallsMut == <<Close(AuthFailCode, "auth required")>>
\* what the auth timeout callback does to an unauthenticated connection
AuthTimeoutCalls ==
    <<SendError("unauthorized", "auth timeout"), Close(AuthFailCode, "auth required")>>

\* the callback of onConnect's setTimeout
AuthTimerFire(t) ==
    /\ Idle
    /\ t \in timers
    /\ t.kind = "auth"
    /\ t.left <= 0
    /\ timers' = timers \ {t}
    /\ IF ~authed[t.conn]
       THEN /\ out' = OutTo(t.conn, AuthTimeoutCalls)
            /\ status' = Closing(t.conn)
            /\ timeouts' = [timeouts EXCEPT ![t.conn].auth = @ + 1]
       ELSE /\ out' = NoOut
            /\ UNCHANGED <<status, timeouts>>
    /\ authTimers' = [authTimers EXCEPT ![t.conn] = 0]
    /\ response' = NoResponse
    /\ UNCHANGED <<roomId, lastMessage, pingTimers, authed, userId,
                   inflight>>

\* ---------------------------------------------------------------- onClose
OnClose(c) ==
    /\ Idle
    /\ status[c] \in {"open", "closing"}
    /\ status' = [status EXCEPT ![c] = "closed"]
    /\ timers' = ClearTimeout(ClearTimeout(timers, authTimers[c]), pingTimers[c])
    /\ authTimers' = [authTimers EXCEPT ![c] = 0]
    /\ pingTimers' = [pingTimers EXCEPT ![c] = 0]
    /\ out' = NoOut
    /\ response' = NoResponse
    /\ UNCHANGED <<roomId, lastMessage, authed, userId, inflight,
                   timeouts>>

\* -------------------------------------------------------------- onMessage
\* a bug: the idle timeout closes without the error
PingTimeoutCallsMut == <<Close(NormalCloseCode, "ping timeout")>>
\* what the idle timeout callback does to the connection
PingTimeoutCalls ==
    <<SendError("ping_timeout", "ping timeout - connection will be closed"),
      Close(NormalCloseCode, "ping timeout")>>

\* the callback of both idle setTimeouts (auth branch and ping branch)
PingTimerFire(t) ==
    /\ Idle
    /\ t \in timers
    /\ t.kind = "ping"
    /\ t.left <= 0
    /\ timers' = timers \ {t}
    /\ IF ~authed[t.conn]
       THEN /\ out' = NoOut
            /\ UNCHANGED <<status, pingTimers, timeouts>>
       ELSE /\ out' = OutTo(t.conn, PingTimeoutCalls)
            /\ status' = Closing(t.conn)
            /\ pingTimers' = [pingTimers EXCEPT ![t.conn] = 0]
            /\ timeouts' = [timeouts EXCEPT ![t.conn].ping = @ + 1]
    /\ response' = NoResponse
    /\ UNCHANGED <<roomId, lastMessage, authTimers, authed, userId,
                   inflight>>

\* msg.roomId || this.roomId
ResolveRoom(m) == OrElse(m.roomId, roomId)

\* the auth branch up to its await: the preconditions, then the call
AuthBegin(c, m) ==
    IF ~Truthy(m.token)
    THEN Reply(c, <<SendError("bad_payload", "token required")>>)
    ELSE IF ~Truthy(ResolveRoom(m))
    THEN /\ out' = OutTo(c, <<SendError("bad_payload", "roomId required"),
                             Close(AuthFailCode, "roomId required")>>)
         /\ status' = Closing(c)
         /\ response' = NoResponse
         /\ UNCHANGED <<roomId, lastMessage, authTimers, pingTimers, authed,
                        userId, timers, inflight, timeouts>>
    ELSE /\ inflight' = [inflight EXCEPT ![c] =
                Append(@, [roomId |-> ResolveRoom(m), userId |-> m.userId])]
         /\ out' = NoOut
         /\ response' = NoResponse
         /\ UNCHANGED <<roomId, lastMessage, authTimers, pingTimers, authed,
                        userId, status, timers, timeouts>>

\* msg.t ?? Date.now()
PongValue(m) == IF m.hasT THEN m.t ELSE DateNow

\* case "ping"
OnPing(c, m) ==
    /\ LET cleared == ClearTimeout(timers, pingTimers[c])
           h == NextTimer(cleared)
       IN /\ timers' = cleared \cup {Timer(h, "ping", c, PingTimeoutMs)}
          /\ pingTimers' = [pingTimers EXCEPT ![c] = h]
    /\ out' = OutTo(c, <<Send(Pong(PongValue(m)))>>)
    /\ response' = NoResponse
    /\ UNCHANGED <<roomId, lastMessage, authTimers, authed, userId, status,
                   inflight, timeouts>>

\* case "typing"
OnTyping(c, m) ==
    /\ out' = Broadcast(TypingPayload(userId[c], m.isTyping, roomId,
                                      DateNow, lastMessage), {c})
    /\ response' = NoResponse
    /\ UNCHANGED <<roomId, lastMessage, authTimers, pingTimers, authed, userId,
                   status, timers, inflight, timeouts>>

\* a bug: frames other than auth are handled before authentication
NotAuthedMut(c) == FALSE
\* if (!conn.authed): frames other than auth are refused
NotAuthed(c) == ~authed[c]

\* The scenarios deliver the frames of open connections: no frame arrives
\* between the hub's close() of a connection and its onClose.
OnMessage(c, m) ==
    /\ Idle
    /\ status[c] = "open"
    /\ IF ~m.json
       THEN Reply(c, <<SendError("bad_json", "malformed json")>>)
       ELSE IF ~Truthy(m.type)
       THEN Reply(c, <<SendError("bad_payload", "missing type")>>)
       ELSE IF m.type = "auth"
       THEN AuthBegin(c, m)
       ELSE IF NotAuthed(c)
       THEN Reply(c, <<SendError("unauthorized", "auth first")>>)
       ELSE IF m.type = "ping"
       THEN OnPing(c, m)
       ELSE IF m.type = "typing"
       THEN OnTyping(c, m)
       ELSE Reply(c, <<SendError("unknown_type", "unknown: " \o m.type)>>)

\* what a failed verification does to the connection
UnauthorizedCalls ==
    <<SendError("unauthorized", "not a participant"), Close(AuthFailCode, "unauthorized")>>

\* result.userId || msg.userId
ResolveUser(result, call) == OrElse(result.userId, call.userId)

\* the auth branch after its await: checkParticipant has answered call i of c
OnMessageResume(c, i, reply) ==
    /\ Idle
    /\ i \in 1..Len(inflight[c])
    /\ inflight' = [inflight EXCEPT ![c] = Remove(@, i)]
    /\ response' = NoResponse
    /\ LET call == inflight[c][i]
           result == CheckParticipant(reply)
       IN IF ~result.success
          THEN /\ out' = OutTo(c, UnauthorizedCalls)
               /\ status' = Closing(c)
               /\ UNCHANGED <<roomId, lastMessage, authTimers, pingTimers,
                              authed, userId, timers, timeouts>>
          ELSE /\ roomId' = call.roomId
               /\ authed' = [authed EXCEPT ![c] = TRUE]
               /\ userId' = [userId EXCEPT ![c] = ResolveUser(result, call)]
               /\ LET cleared == ClearTimeout(timers, authTimers[c])
                      h == NextTimer(cleared)
                  IN /\ timers' = cleared \cup {Timer(h, "ping", c, PingTimeoutMs)}
                     /\ pingTimers' = [pingTimers EXCEPT ![c] = h]
               /\ authTimers' = [authTimers EXCEPT ![c] = 0]
               /\ out' = OutTo(c, <<Send(AuthOk)>>)
               /\ UNCHANGED <<lastMessage, status, timeouts>>

\* -------------------------------------------------------------- onRequest
Json(code, success, error) == Response(code, Null, success, error, NoBody, Null)

\* a bug: the body's roomId always becomes the hub's
BindRoomMut(rid) == rid
\* if (!this.roomId) this.roomId = body.roomId
BindRoom(rid) == OrElse(roomId, rid)

\* POST /broadcast from line 188 on: the body has been read
OnBroadcast(rq) ==
    IF ~rq.bodyOk \/ ~Truthy(rq.roomId) \/ rq.message = NoBody
    THEN /\ response' = Json(400, FALSE, "roomId and message required")
         /\ out' = NoOut
         /\ UNCHANGED <<roomId, lastMessage>>
    ELSE IF rq.roomId # BindRoom(rq.roomId)
    THEN /\ response' = Json(400, FALSE, "wrong room instance")
         /\ out' = NoOut
         /\ roomId' = BindRoom(rq.roomId)
         /\ UNCHANGED lastMessage
    ELSE /\ roomId' = BindRoom(rq.roomId)
         /\ out' = Broadcast(Decorate(rq.message, lastMessage), rq.exclude)
         /\ lastMessage' = rq.message
         /\ response' = Json(200, TRUE, Null)

Unauthorized == Response(401, "Unauthorized", FALSE, Null, NoBody, Null)

OnLastMessage(rq) ==
    /\ response' = IF ~Authorized(rq)
                   THEN Unauthorized
                   ELSE Response(200, Null, TRUE, Null, lastMessage, roomId)
    /\ out' = NoOut
    /\ UNCHANGED <<roomId, lastMessage, pending>>

\* onRequest up to its return or, for a POST /broadcast that carries the
\* secret, up to its await of request.json(): the call is then pending, marked
\* with its number where calls are numbered (the count of calls started, this
\* one included), and the hub is free for other handlers
OnRequest(rq) ==
    /\ Idle
    /\ IF rq.path = "/broadcast" /\ rq.method = "POST"
       THEN IF ~Authorized(rq)
            THEN /\ response' = Unauthorized
                 /\ out' = NoOut
                 /\ UNCHANGED <<roomId, lastMessage, pending>>
            ELSE /\ pending' = Append(pending, [rq |-> rq, start |-> started'])
                 /\ UNCHANGED <<roomId, lastMessage, out, response>>
       ELSE IF rq.path = "/last-message" /\ rq.method = "GET" THEN OnLastMessage(rq)
       ELSE /\ response' = Response(404, "Not found", FALSE, Null, NoBody, Null)
            /\ out' = NoOut
            /\ UNCHANGED <<roomId, lastMessage, pending>>
    /\ UNCHANGED <<authTimers, pingTimers, authed, userId, status, timers,
                   inflight, timeouts, writer>>

\* onRequest after its await: the body of pending call i has been read, and
\* the rest of the handler runs; writer remembers whose body the cache holds
OnRequestResume(i) ==
    /\ Idle
    /\ i \in 1..Len(pending)
    /\ OnBroadcast(pending[i].rq)
    /\ pending' = Remove(pending, i)
    /\ writer' = IF response'.status = 200 THEN pending[i].start ELSE writer
    /\ UNCHANGED <<authTimers, pingTimers, authed, userId, status, timers,
                   inflight, timeouts, started>>

\* ------------------------------------------------------------------ clock
\* Time passes in steps of TickMs; a timer that is due fires before the next
\* step of the clock.
Tick ==
    /\ Idle
    /\ timers # {}
    /\ \A t \in timers : t.left > 0
    /\ timers' = {[t EXCEPT !.left = @ - TickMs] : t \in timers}
    /\ UNCHANGED <<roomId, lastMessage, authTimers, pingTimers, authed, userId,
                   status, inflight, out, response, timeouts>>

\* the calls of the finished handler reach the sockets, its response the caller
Deliver ==
    /\ ~Idle
    /\ out' = NoOut
    /\ response' = NoResponse
    /\ UNCHANGED <<roomId, lastMessage, authTimers, pingTimers, authed, userId,
                   status, timers, inflight, timeouts>>

\* ------------------------------------------------------------ specification
\* One connection through its whole life: every frame, the timers and the
\* clock, the verification call, and broadcasts of one body.
SoloConns == {"c1"}

\* the bounds of a scenario: pending timers and calls in flight
Within(maxTimers, maxInflight) ==
    Cardinality(timers) <= maxTimers /\ InFlight <= maxInflight

SoloBound == Within(MaxTimers, MaxInflight)'

\* a step of a handler that is no HTTP call, in a scenario that does not
\* number the calls by their start
Quiet == UNCHANGED <<pending, started, writer>>

SoloPending == Len(pending') <= SoloMaxPending

Next ==
    \/ \E c \in SoloConns, rt \in Routes : OnConnect(c, rt) /\ SoloBound /\ Quiet
    \/ \E c \in SoloConns : OnClose(c) /\ Quiet
    \/ \E c \in SoloConns, m \in Frames : OnMessage(c, m) /\ SoloBound /\ Quiet
    \/ \E c \in SoloConns, i \in 1..MaxInflight, reply \in BackendReplies :
          OnMessageResume(c, i, reply) /\ SoloBound /\ Quiet
    \/ \E t \in timers : AuthTimerFire(t) /\ Quiet
    \/ \E t \in timers : PingTimerFire(t) /\ Quiet
    \/ \E rq \in Requests : UNCHANGED started /\ OnRequest(rq) /\ SoloPending
    \/ \E i \in 1..SoloMaxPending : OnRequestResume(i)
    \/ Tick /\ Quiet
    \/ Deliver /\ Quiet

Spec == Init /\ [][Next]_vars

\* Two connections of one room before any deadline is due: every frame, the
\* verification call, and every request.
RoomBound == Within(RoomMaxTimers, RoomMaxInflight)'
RoomPending == Len(pending') <= RoomMaxPending

RoomNext ==
    \/ \E c \in Conns, rt \in Routes : OnConnect(c, rt) /\ RoomBound /\ Quiet
    \/ \E c \in Conns : OnClose(c) /\ Quiet
    \/ \E c \in Conns, m \in RoomFrames : OnMessage(c, m) /\ RoomBound /\ Quiet
    \/ \E c \in Conns, i \in 1..RoomMaxInflight, reply \in RoomReplies :
          OnMessageResume(c, i, reply) /\ RoomBound /\ Quiet
    \/ \E rq \in RoomRequests : UNCHANGED started /\ OnRequest(rq) /\ RoomPending
    \/ \E i \in 1..RoomMaxPending : OnRequestResume(i)
    \/ Deliver /\ Quiet

RoomSpec == Init /\ [][RoomNext]_vars

\* ---------------------------------------------- calls in their start order
\* Every call of onMessage and onRequest is numbered by its start, so that
\* the two steps of a POST /broadcast (OnRequest, OnRequestResume) can be told
\* from those of a call that started in between.

\* onRequest as a numbered call
OnRequestCall(rq) ==
    /\ started' = started + 1
    /\ OnRequest(rq)

\* onMessage as a numbered call
OnMessageCall(c, m) ==
    /\ OnMessage(c, m)
    /\ started' = started + 1
    /\ UNCHANGED <<pending, writer>>

\* Two connections of room r1, auth and typing frames, a verification that
\* succeeds, and broadcasts of two bodies whose calls may overlap.
TrigRoute == Route(Parsed, "r1", Null, Null, Absent, Null, Null)
TrigFrames ==
    { Raw(TRUE, "auth", "tok", Null, "h1", FALSE, Null, Null),
      Raw(TRUE, "typing", Null, Null, Null, FALSE, Null, JTrue) }
TrigReply == FetchReply(FALSE, 200, JsonObject, "u1")
TrigRequests ==
    { Request("/broadcast", "POST", Bearer(WebhookToken), TRUE, "r1", m, {}) :
        m \in Bodies }
    \cup { Request("/broadcast", "POST", Bearer("wrong"), TRUE, "r1", Body("m1", Null), {}) }

TrigBound ==
    /\ Within(RoomMaxTimers, RoomMaxInflight)'
    /\ started' <= MaxStarted
    /\ Len(pending') <= MaxPending

TrigNext ==
    \/ \E c \in Conns : OnConnect(c, TrigRoute) /\ Quiet /\ TrigBound
    \/ \E c \in Conns, m \in TrigFrames : OnMessageCall(c, m) /\ TrigBound
    \/ \E c \in Conns : OnMessageResume(c, 1, TrigReply) /\ Quiet /\ TrigBound
    \/ \E rq \in TrigRequests : OnRequestCall(rq) /\ TrigBound
    \/ \E i \in 1..MaxPending : OnRequestResume(i) /\ TrigBound
    \/ Deliver /\ Quiet

TriggerSpec == Init /\ [][TrigNext]_vars

\* ------------------------------------------------------------ hibernation
\* static options = { hibernate: true }: between two events the runtime may
\* drop the object from memory and construct it again for the next event.
\* The fields start from their initialisers, the pending setTimeout timers
\* and the awaited calls are gone, and the sockets stay open.  Whether the
\* properties set on a connection object (authed, userId) survive is left
\* open: both outcomes are steps of the model.
Hibernate(keep) ==
    /\ Idle
    /\ timers # {}
    /\ roomId' = Null
    /\ lastMessage' = NoBody
    /\ authTimers' = [c \in Conns |-> 0]
    /\ pingTimers' = [c \in Conns |-> 0]
    /\ timers' = {}
    /\ inflight' = [c \in Conns |-> << >>]
    /\ authed' = IF keep THEN authed ELSE [c \in Conns |-> FALSE]
    /\ userId' = IF keep THEN userId ELSE [c \in Conns |-> Null]
    /\ UNCHANGED <<status, out, response, timeouts>>

\* One connection that sends a bounded number of frames and then stays
\* silent, the verification call, the timers and the clock, and hibernation.
HibFrames ==
    { Raw(TRUE, "auth", "tok", Null, "h1", FALSE, Null, Null),
      Raw(TRUE, "ping", Null, Null, Null, FALSE, Null, Null) }
HibReplies ==
    { FetchReply(FALSE, 200, JsonObject, "u1"),
      FetchReply(FALSE, 403, JsonObject, Null) }

HibBound == SoloBound /\ started' <= MaxStarted

HibConnect == \E c \in SoloConns : OnConnect(c, TrigRoute) /\ Quiet /\ HibBound
HibClose == \E c \in SoloConns : OnClose(c) /\ Quiet
HibMessage == \E c \in SoloConns, m \in HibFrames : OnMessageCall(c, m) /\ HibBound
HibResume ==
    \E c \in SoloConns, i \in 1..MaxInflight, reply \in HibReplies :
        OnMessageResume(c, i, reply) /\ Quiet /\ HibBound
HibAuthFire == \E t \in timers : AuthTimerFire(t) /\ Quiet
HibPingFire == \E t \in timers : PingTimerFire(t) /\ Quiet
HibTick == Tick /\ Quiet
HibDeliver == Deliver /\ Quiet
HibHibernate == \E keep \in BOOLEAN : Hibernate(keep) /\ Quiet

HibNext ==
    \/ HibConnect
    \/ HibClose
    \/ HibMessage
    \/ HibResume
    \/ HibAuthFire
    \/ HibPingFire
    \/ HibTick
    \/ HibDeliver
    \/ HibHibernate

\* The runtime hands over what a handler produced, lets time pass, runs the
\* callback of a timer that is due, and the verification call returns.
HibernateSpec ==
    /\ Init
    /\ [][HibNext]_vars
    /\ WF_vars(HibDeliver)
    /\ WF_vars(HibTick)
    /\ WF_vars(HibAuthFire)
    /\ WF_vars(HibPingFire)
    /\ WF_vars(HibResume)

\* ------------------------------------------------------- model sanity
\* The maps hold only handles of pending timers of their own connection and
\* kind, which is what lets setTimeout reuse the handle of a timer that is gone.
HandlesLive ==
    \A c \in Conns :
        /\ authTimers[c] # 0 =>
              \E t \in timers : t.id = authTimers[c] /\ t.conn = c /\ t.kind = "auth"
        /\ pingTimers[c] # 0 =>
              \E t \in timers : t.id = pingTimers[c] /\ t.conn = c /\ t.kind = "ping"

\* ================================================================ claims
AuthTimersOf(ts, c) == {t \in ts : t.kind = "auth" /\ t.conn = c}
PingTimersOf(ts, c) == {t \in ts : t.kind = "ping" /\ t.conn = c}

\* ------------------------------------------------------------------- C1
\* While a connection is open and unauthenticated exactly one admission
\* timer of at most 10 s is pending for it, recorded in authTimers; no
\* connection is ever sent more than one auth-timeout error.
C1_Armed ==
    \A c \in Conns :
        /\ (status[c] = "open" /\ ~authed[c]) =>
              /\ Cardinality(AuthTimersOf(timers, c)) = 1
              /\ \A t \in AuthTimersOf(timers, c) :
                    t.id = authTimers[c] /\ t.left <= 10000 /\ t.left >= 0
        /\ timeouts[c].auth <= 1

\* When the admission timer of a connection that has not authenticated fires,
\* the hub sends it the error unauthorized / "auth timeout" and then closes it
\* with 4401, and nothing else.
C1_Fire ==
    \A t \in timers :
        (AuthTimerFire(t) /\ ~authed[t.conn]) =>
            /\ out' = OutTo(t.conn,
                  <<Send([type |-> "error", code |-> "unauthorized",
                          message |-> "auth timeout"]),
                    [call |-> "close", code |-> 4401, reason |-> "auth required"]>>)
            /\ status'[t.conn] # "open"
            /\ AuthTimersOf(timers', t.conn) = {}
            /\ timeouts'[t.conn].auth = 1

\* C1: a connection that sends no auth request before its admission deadline
\* (10 s) expires is sent exactly one unauthorized (auth timeout) error and is
\* then closed with 4401; it is never sent a second timeout error.
C1_AuthTimeout == []C1_Armed /\ [][C1_Fire]_vars

\* the admission timer has fired on an open connection that never authenticated
C1_Witness ==
    /\ out["c1"] = <<SendError("unauthorized", "auth timeout"),
                     Close(AuthFailCode, "auth required")>>
    /\ status["c1"] = "closing"
    /\ ~authed["c1"]
    /\ inflight["c1"] = << >>

\* ------------------------------------------------------------------- C2
\* The step property of C2, stated on one step of the hub.
C2_Step ==
    \A c \in Conns, m \in RoomFrames :
        (OnMessage(c, m) /\ m.json /\ Truthy(m.type) /\ m.type # "auth"
            /\ ~authed[c]) =>
            /\ out' = OutTo(c, <<Send([type |-> "error", code |-> "unauthorized",
                                      message |-> "auth first"])>>)
            /\ UNCHANGED <<authed, userId, authTimers, pingTimers, timers,
                           roomId, lastMessage, status, inflight>>
            /\ AuthTimersOf(timers', c) # {}
            /\ authTimers'[c] # 0

\* C2: a well-formed frame whose type is not "auth", on a connection that has
\* not authenticated, is answered with the error unauthorized and changes
\* nothing: authed, userId, both timer maps, the pending timers, roomId and
\* lastMessage stay as they were, no other connection is sent anything, and
\* the admission timer is still pending.
C2_PreAuthRejected == [][C2_Step]_vars

\* an unauthenticated connection was refused while the other one, open and
\* authenticated, got nothing
C2_Witness ==
    /\ out["c2"] = <<SendError("unauthorized", "auth first")>>
    /\ ~authed["c2"]
    /\ authed["c1"] /\ status["c1"] = "open"
    /\ out["c1"] = << >>

\* ------------------------------------------------------------------- C3
\* The step property of C3, stated on one step of the hub.
C3_Step ==
    \A c \in Conns, i \in 1..MaxInflight, reply \in BackendReplies :
        (OnMessageResume(c, i, reply) /\ ~reply.thrown /\ reply.status = 200
            /\ reply.json # "null") =>
            /\ authed'[c]
            /\ authTimers'[c] = 0
            /\ AuthTimersOf(timers', c) = {}
            /\ Cardinality(PingTimersOf(timers', c))
                  = Cardinality(PingTimersOf(timers, c)) + 1
            /\ \E t \in PingTimersOf(timers', c) :
                  /\ t.id = pingTimers'[c]
                  /\ t.left = 30000
                  /\ PingTimersOf(timers', c) \ {t} = PingTimersOf(timers, c)
            /\ out' = OutTo(c, <<Send([type |-> "auth:ok"])>>)

\* C3: when the verification call of an auth request succeeds, the hub marks
\* the connection authenticated, cancels its admission timer, arms exactly one
\* new idle timer of 30 s for it (recorded in pingTimers) and sends it
\* auth:ok exactly once.
C3_AuthSuccess == [][C3_Step]_vars

\* a verification succeeded for an open connection whose admission timer was
\* pending: it is authenticated, acknowledged, and has one idle timer
C3_Witness ==
    /\ out["c1"] = <<Send(AuthOk)>>
    /\ status["c1"] = "open"
    /\ authed["c1"]
    /\ Cardinality(PingTimersOf(timers, "c1")) = 1
    /\ AuthTimersOf(timers, "c1") = {}

\* ------------------------------------------------------------------- C4
\* C4: an authenticated connection that sends no ping within the idle window
\* (30 s) is sent exactly one ping_timeout error and is then closed with 1000,
\* after any earlier operations on it, repeated auth requests included.
C4_OnePingTimeout ==
    \A c \in Conns :
        /\ timeouts[c].ping <= 1
        /\ (out[c] # << >> /\ out[c][1] = SendError("ping_timeout",
                                "ping timeout - connection will be closed")) =>
              out[c] = <<SendError("ping_timeout",
                                   "ping timeout - connection will be closed"),
                         [call |-> "close", code |-> 1000, reason |-> "ping timeout"]>>

\* ------------------------------------------------------------------- C5
\* The step property of C5, stated on one step of the hub.
C5_Step ==
    \A c \in Conns, m \in PingFrames :
        (OnMessage(c, m) /\ authed[c]) =>
            /\ out' = OutTo(c, <<Send([type |-> "pong",
                                      t |-> IF m.hasT THEN m.t ELSE DateNow])>>)
            /\ Cardinality(PingTimersOf(timers', c)) = 1
            /\ \A t \in PingTimersOf(timers', c) :
                  t.left = 30000 /\ t.id = pingTimers'[c]

\* C5: a ping of an authenticated connection cancels the pending idle timer,
\* arms a fresh one for the full idle window (30 s) and is answered with a pong
\* carrying the ping's t (the current time when t is absent); after the ping
\* exactly one idle timer is pending for the connection.
C5_PingRearms == [][C5_Step]_vars

\* ------------------------------------------------------------------- C9
\* C9: once the hub's room identifier is bound its value never changes: a
\* later auth request or broadcast carrying another identifier leaves it as it
\* was.
C9_RoomIdStable == [][Truthy(roomId) => roomId' = roomId]_vars

\* ------------------------------------------------------------------ C10
\* The step property of C10, stated on one step of the hub.
C10_Step ==
    \A c \in Conns, i \in 1..MaxInflight, reply \in BackendReplies :
        (OnMessageResume(c, i, reply) /\ (reply.thrown \/ reply.status # 200)) =>
            /\ out' = OutTo(c,
                  <<Send([type |-> "error", code |-> "unauthorized",
                          message |-> "not a participant"]),
                    [call |-> "close", code |-> 4401, reason |-> "unauthorized"]>>)
            /\ status'[c] # "open"
            /\ UNCHANGED <<authed, userId, roomId, lastMessage, authTimers,
                           pingTimers, timers>>

\* C10: when the verification call of an auth request fails (an answer other
\* than 200, or a transport failure) the hub sends the connection the error
\* unauthorized and then closes it with 4401, and changes nothing else: authed,
\* userId, roomId, lastMessage, the timer maps and the pending timers stay as
\* they were, so no idle timer is armed.
C10_AuthFailure == [][C10_Step]_vars

\* a verification failed for an open connection that was not authenticated:
\* it is refused and closing, still unauthenticated, with no idle timer
C10_Witness ==
    /\ out["c1"] = UnauthorizedCalls
    /\ status["c1"] = "closing"
    /\ ~authed["c1"]
    /\ userId["c1"] = Null
    /\ PingTimersOf(timers, "c1") = {}

\* ------------------------------------------------------------------- C6
\* The step property of C6, stated on one step of the hub.
C6_Step ==
    \A a \in Conns, m \in TypingFrames :
        (OnMessage(a, m) /\ authed[a]) =>
            /\ out'[a] = << >>
            /\ \A b \in Conns \ {a} :
                  (status[b] = "open" /\ authed[b]) =>
                      out'[b] = <<Send([type |-> "typing",
                                        userId |-> IF userId[a] = Null
                                                   THEN "unknown" ELSE userId[a],
                                        isTyping |-> (m.isTyping = JTrue),
                                        roomId |-> roomId,
                                        timestamp |-> DateNow,
                                        before |-> lastMessage])>>
            /\ UNCHANGED <<lastMessage, roomId>>

\* C6: a typing frame of an authenticated connection a is delivered to every
\* other open authenticated connection and never to a itself; the payload
\* carries a's user id ("unknown" when a has none), the isTyping flag, the
\* bound room id and, as before, the current lastMessage.
C6_TypingFanout == [][C6_Step]_vars

\* c1, authenticated as u1, typed after a broadcast of m1: c2, open and
\* authenticated, got the payload and c1 got nothing
C6_Witness ==
    /\ out["c1"] = << >>
    /\ authed["c1"] /\ authed["c2"] /\ status["c2"] = "open"
    /\ userId["c1"] = "u1"
    /\ lastMessage = Body("m1", Null)
    /\ out["c2"] = <<Send(TypingPayload("u1", JTrue, roomId, DateNow, lastMessage))>>

\* ------------------------------------------------------------------- C7
\* The step property of C7, stated on one step of the hub.
C7_Step ==
    \A i \in 1..RoomMaxPending, rq \in RoomRequests :
        (OnRequestResume(i) /\ rq = pending[i].rq
            /\ rq.path = "/broadcast" /\ rq.method = "POST"
            /\ rq.auth = <<"Bearer", "secret">> /\ rq.bodyOk
            /\ Truthy(roomId) /\ rq.roomId = roomId /\ rq.message # NoBody) =>
            /\ lastMessage' = rq.message
            /\ response'.status = 200
            /\ \A c \in Conns :
                  out'[c] = IF status[c] = "open" /\ c \notin rq.exclude
                            THEN <<Send([type |-> rq.message.type,
                                         id |-> rq.message.id,
                                         before |-> lastMessage])>>
                            ELSE << >>

\* C7: a POST /broadcast with the shared secret, the bound room id and a
\* message sets lastMessage to exactly the submitted body and delivers the
\* body with before = the lastMessage held before the call to every open
\* connection that excludeConnectionIds does not list, and to none it lists.
C7_BroadcastAccepted == [][C7_Step]_vars

\* m2 (which has a "before" member of its own) was broadcast after m1 with c2
\* excluded: c1 got m2 with before = m1, c2 nothing, and the cache holds m2
C7_Witness ==
    /\ lastMessage = Body("m2", "own")
    /\ status["c1"] = "open" /\ status["c2"] = "open"
    /\ out["c1"] = <<Send([type |-> "message.created", id |-> "m2",
                           before |-> Body("m1", Null)])>>
    /\ out["c2"] = << >>
    /\ response.status = 200

\* ------------------------------------------------------------------- C8
\* The step property of C8, stated on one step of the hub.
C8_Step ==
    \A rq \in RoomRequests :
        (OnRequest(rq) /\ rq.path = "/broadcast" /\ rq.method = "POST"
            /\ rq.auth # <<"Bearer", "secret">>) =>
            /\ response'.status = 401
            /\ out' = NoOut
            /\ UNCHANGED <<roomId, lastMessage, authTimers, pingTimers, authed,
                           userId, status, timers, inflight, pending>>

\* C8: a POST /broadcast whose Authorization header is missing or is not
\* "Bearer WEBHOOK_TOKEN" is answered 401 and changes nothing: lastMessage,
\* roomId, the connections and the timers stay as they were and no connection
\* is sent anything.
C8_BroadcastUnauthorized == [][C8_Step]_vars

\* a broadcast was refused with 401 while a connection was open
C8_Witness ==
    /\ response.status = 401
    /\ out = NoOut
    /\ status["c1"] = "open"
    /\ roomId = "r1"
    /\ lastMessage = NoBody

\* ------------------------------------------------------------------ C11
\* The step property of C11, stated on one step of the hub.
C11_Step ==
    \A i \in 1..RoomMaxPending, rq \in RoomRequests :
        (OnRequestResume(i) /\ rq = pending[i].rq
            /\ rq.path = "/broadcast" /\ rq.method = "POST"
            /\ rq.auth = <<"Bearer", "secret">>
            /\ \/ ~rq.bodyOk
               \/ rq.roomId \in {Null, Empty}
               \/ rq.message = NoBody
               \/ (Truthy(roomId) /\ rq.roomId # roomId)) =>
            /\ response'.status = 400
            /\ response'.success = FALSE
            /\ out' = NoOut
            /\ UNCHANGED <<roomId, lastMessage, authTimers, pingTimers, authed,
                           userId, status, timers, inflight>>

\* C11: a POST /broadcast with the shared secret whose roomId differs from the
\* hub's bound room id, or whose roomId or message is missing, is answered
\* with the error status 400 and has no effect: lastMessage and roomId are
\* unchanged and no connection is sent anything.
C11_BroadcastRejected == [][C11_Step]_vars

\* a broadcast for another room was refused while the hub, bound to r1, held
\* m1 and a connection was open
C11_Witness ==
    /\ response = Json(400, FALSE, "wrong room instance")
    /\ roomId = "r1"
    /\ lastMessage = Body("m1", Null)
    /\ status["c1"] = "open"
    /\ out = NoOut

\* ------------------------------------------------------------------ C12
\* C12: in every reachable state a connection has at most one pending
\* admission timer and at most one pending idle timer, also after a second
\* auth request on an authenticated connection or after two auth requests
\* whose verification calls overlap.
C12_OneTimerPerKind ==
    \A c \in Conns :
        /\ Cardinality(AuthTimersOf(timers, c)) <= 1
        /\ Cardinality(PingTimersOf(timers, c)) <= 1

\* ------------------------------------------------------------------ C13
\* C13: after onClose of a connection no admission or idle timer of that
\* connection is pending (so none can fire on it later), also when the close
\* happens while its verification call is in flight.
C13_NoTimerAfterClose ==
    \A c \in Conns :
        status[c] = "closed" =>
            /\ AuthTimersOf(timers, c) = {}
            /\ PingTimersOf(timers, c) = {}

\* ------------------------------------------------------------------ C14
\* C14: an idle timer that fires sends ping_timeout and closes only if it is
\* still the idle timer recorded for its connection in pingTimers.
C14_StaleTimerInert ==
    [][\A t \in timers :
          (PingTimerFire(t) /\ out'[t.conn] # << >>) => t.id = pingTimers[t.conn]]_vars

\* ------------------------------------------------------------------ C15
\* C15: once a connection has been closed (by the hub or by the transport) no
\* later step marks it authenticated, records a user id for it, or sends it
\* auth:ok.
C15_ClosedTerminal ==
    [][\A c \in Conns :
          status[c] \in {"closing", "closed"} =>
              /\ authed'[c] = authed[c]
              /\ userId'[c] = userId[c]
              /\ \A i \in 1..Len(out'[c]) : out'[c][i] # [call |-> "send",
                                                         data |-> [type |-> "auth:ok"]]]_vars

\* ------------------------------------------------------------------ C16
\* C16: an auth request of an unauthenticated connection that carries no
\* non-empty token, or for which no room identifier can be resolved, is
\* answered with an error and then the connection is closed with 4401.
C16_MalformedAuthCloses ==
    [][\A c \in Conns, m \in Frames :
          (OnMessage(c, m) /\ m.json /\ m.type = "auth" /\ ~authed[c]
              /\ \/ m.token \in {Null, Empty}
                 \/ (m.roomId \in {Null, Empty} /\ roomId \in {Null, Empty})) =>
              /\ Len(out'[c]) = 2
              /\ out'[c][1].call = "send" /\ out'[c][1].data.type = "error"
              /\ out'[c][2].call = "close" /\ out'[c][2].code = 4401
              /\ status'[c] = "closing"]_vars

\* ------------------------------------------------------------------ C17
\* C17: the hub handles one operation at a time to completion: while an auth
\* request is being handled (its verification call is awaited) no other
\* event, message, timer or request changes a field of the hub or of a
\* connection.
C17_OneAtATime ==
    [][(InFlight > 0 /\ InFlight' >= InFlight) =>
          UNCHANGED <<roomId, lastMessage, authTimers, pingTimers, authed, userId>>]_vars

\* ------------------------------------------------------------------ C20
\* C20: every close the hub itself makes on a connection (admission timeout,
\* idle timeout, failed verification, missing room id) comes immediately
\* after an error message sent to that same connection in the same step.
C20_ErrorBeforeClose ==
    \A c \in Conns :
        \A i \in 1..Len(out[c]) :
            out[c][i].call = "close" =>
                /\ i > 1
                /\ out[c][i - 1].call = "send"
                /\ out[c][i - 1].data.type = "error"

\* an auth request for which no room id can be resolved was refused and the
\* connection closed with 4401
C20_Witness ==
    /\ out["c1"] = <<[call |-> "send",
                      data |-> [type |-> "error", code |-> "bad_payload",
                                message |-> "roomId required"]],
                     [call |-> "close", code |-> 4401, reason |-> "roomId required"]>>
    /\ status["c1"] = "closing"
    /\ roomId = Empty

\* ------------------------------------------------------------------ C18
\* The step property of C18: a fanout that reaches a connection embeds as
\* "before" a lastMessage written by a call that started no later than the
\* fanout's own call.
C18_Step ==
    /\ \A i \in 1..MaxPending :
          (OnRequestResume(i) /\ \E c \in Conns : out'[c] # << >>) =>
              writer <= pending[i].start
    /\ \A c \in Conns, m \in TrigFrames :
          (OnMessageCall(c, m) /\ m.type = "typing" /\ \E d \in Conns : out'[d] # << >>) =>
              writer <= started'

\* C18: for any interleaving of external triggers and typing fanouts, the
\* "before" embedded in a fanout is never a cache value written by a trigger
\* call that started after that fanout's call started.
C18_BeforeNotFromLater == [][C18_Step]_vars

\* ------------------------------------------------------------------ C19
\* C19: a deadline armed before the hub is suspended still takes effect after
\* it is resumed: a connection that is open and stays silent is eventually
\* closed (4401 while unauthenticated, ping_timeout and 1000 once
\* authenticated), whether or not the hub hibernated in between.
C19_DeadlineSurvives ==
    \A c \in SoloConns : (status[c] = "open") ~> (status[c] # "open")

\* ------------------------------------------------------------------ C21
\* C21: no fanout payload, neither a typing event nor a broadcast message, is
\* ever delivered to a connection that has not authenticated.
C21_FanoutOnlyToAuthed ==
    \A c \in Conns :
        \A i \in 1..Len(out[c]) :
            (out[c][i].call = "send"
                /\ out[c][i].data.type \in {"typing", "message.created"}) => authed[c]

====
